---- MODULE Spec2Model ----
(***************************************************************************)
(* A model of the TMDB client library (tmdbapi/tmdbapi.py and              *)
(* tmdbapi/entities.py, version 0.3).                                      *)
(*                                                                         *)
(* Conventions.                                                            *)
(*  - A Python string the code inspects character by character (media     *)
(*    synonyms, show names) is a sequence of one-character strings; a      *)
(*    string the code only passes around (urls, keys, language tags) is a  *)
(*    TLA+ string.                                                         *)
(*  - A parsed JSON object (a dict) is a function whose DOMAIN is the set   *)
(*    of keys present.                                                     *)
(*  - An optional value is a set: None is {} and a present value v is {v}. *)
(*  - The outcome of a call is a record: Return(v) or Raise(exc, msg).     *)
(***************************************************************************)
EXTENDS Integers, Sequences, FiniteSets, TLC

VARIABLES
    session,    \* the TmDBSession object the caller holds
    op,         \* the operation in progress or last completed, with its arguments
    pc,         \* position of the running operation: "idle" or a loop label
    frame,      \* local variables of the running operation
    calls,      \* requests.get calls issued by the operation, in order
    resps,      \* the responses to those calls, in order
    result,     \* what the last completed operation returned or raised
    coll,       \* a DailyTvProgramsCollection the caller holds (_programs_pages)
    files,      \* the local filesystem: path -> file content
    entity      \* a TvShow or Season object the caller constructed and holds

vars == <<session, op, pc, frame, calls, resps, result, coll, files, entity>>

----------------------------------------------------------------------------
(* Python values *)

None == {}

Some(v) == {v}

Val(o) == CHOOSE v \in o : TRUE

Return(v) == [kind |-> "return", val |-> v]

Raise(exc, msg) == [kind |-> "raise", exc |-> exc, msg |-> msg]

NoResult == [kind |-> "none"]

NoOp == [name |-> "none"]

NoFrame == [fn |-> "none"]

NoSession == [cls |-> "None"]

NoEntity == [cls |-> "None"]

----------------------------------------------------------------------------
(* str.lower(), the `in` operator on strings, str.split() *)

UpperChars == <<"A","B","C","D","E","F","G","H","I","J","K","L","M",
                "N","O","P","Q","R","S","T","U","V","W","X","Y","Z">>

LowerChars == <<"a","b","c","d","e","f","g","h","i","j","k","l","m",
                "n","o","p","q","r","s","t","u","v","w","x","y","z">>

LowerChar(c) ==
    IF \E i \in 1..Len(UpperChars) : UpperChars[i] = c
    THEN LowerChars[CHOOSE i \in 1..Len(UpperChars) : UpperChars[i] = c]
    ELSE c

Lower(s) == [i \in 1..Len(s) |-> LowerChar(s[i])]

\* Python `sub in s` for strings: sub is a contiguous substring of s
Contains(sub, s) ==
    \E i \in 0..(Len(s) - Len(sub)) : SubSeq(s, i + 1, i + Len(sub)) = sub

RECURSIVE SplitAcc(_, _, _)
SplitAcc(s, cur, acc) ==
    IF s = <<>>
    THEN IF cur = <<>> THEN acc ELSE Append(acc, cur)
    ELSE IF Head(s) = " "
         THEN SplitAcc(Tail(s), <<>>, IF cur = <<>> THEN acc ELSE Append(acc, cur))
         ELSE SplitAcc(Tail(s), Append(cur, Head(s)), acc)

\* str.split() with no separator: the maximal runs of non-blank characters
Split(s) == SplitAcc(s, <<>>, <<>>)

Range(f) == {f[i] : i \in DOMAIN f}

----------------------------------------------------------------------------
(* Media classifier and session factory *)

MOVIE_SESSION_SYNONYM ==
    <<"m","o","v","i","e"," ","f","i","l","m"," ","c","i","n","e","m","a"," ",
      "p","i","c","t","u","r","e">>

TVSERIES_SESSION_SYNONYM ==
    <<"t","v"," ","t","e","l","e","v","i","s","i","o","n"," ","t",".","v","."," ",
      "t","u","b","e"," ","t","e","l","e"," ","s","e","r","i","e","s"," ",
      "s","h","o","w">>

\* a classifier that tries the tv synonyms first
parse_media_tv_first(value) ==
    IF Contains(Lower(value), TVSERIES_SESSION_SYNONYM) THEN "tv"
    ELSE IF Contains(Lower(value), MOVIE_SESSION_SYNONYM) THEN "movie"
    ELSE "unknown"

\* a classifier that knows the movie synonyms only
parse_media_movie_only(value) ==
    IF Contains(Lower(value), MOVIE_SESSION_SYNONYM) THEN "movie"
    ELSE "unknown"

parse_media(value) ==
    IF Contains(Lower(value), MOVIE_SESSION_SYNONYM) THEN "movie"
    ELSE IF Contains(Lower(value), TVSERIES_SESSION_SYNONYM) THEN "tv"
    ELSE "unknown"

\* TmDBSession.__init__: `language or 'en-US'`, an empty genre cache
TmDBSession(cls, api_key, language, media) ==
    [cls     |-> cls,
     api_key |-> api_key,
     lang    |-> IF language = None \/ language = Some("") THEN "en-US"
                 ELSE Val(language),
     media   |-> media,
     genres  |-> <<>>]

TmDBMovieSession(api_key, language) ==
    TmDBSession("TmDBMovieSession", api_key, language, "movie")

TmDBTvSession(api_key, language) ==
    TmDBSession("TmDBTvSession", api_key, language, "tv")

\* a factory that falls back to a TV session instead of raising
session_factory_default_tv(media_type, apy_key, lang) ==
    IF parse_media(Lower(media_type)) = "movie"
    THEN Return(TmDBMovieSession(apy_key, lang))
    ELSE Return(TmDBTvSession(apy_key, lang))

session_factory(media_type, apy_key, lang) ==
    IF parse_media(Lower(media_type)) = "movie"
    THEN Return(TmDBMovieSession(apy_key, lang))
    ELSE IF parse_media(Lower(media_type)) = "tv"
    THEN Return(TmDBTvSession(apy_key, lang))
    ELSE Raise("TmDBSessionException", <<"media ", media_type, " unknown">>)

----------------------------------------------------------------------------
(* Endpoint table and endpoint builder *)

API_ROOT == "https://api.themoviedb.org/3"

\* each template is its text cut at the placeholders; "{}" is a placeholder
API_ENDPOINTS ==
    [root         |-> <<API_ROOT>>,
     config       |-> <<"/configuration">>,
     new_session  |-> <<"/authentication/session/new">>,
     find         |-> <<"/search/", "{}">>,
     genres       |-> <<"/genre/", "{}", "/list">>,
     person       |-> <<"/person/", "{}">>,
     item         |-> <<"/", "{}", "/", "{}">>,
     episode      |-> <<"/tv/", "{}", "/season/", "{}", "/episode/", "{}">>,
     season       |-> <<"/tv/", "{}", "/season/", "{}">>,
     airing_today |-> <<"/tv/airing_today">>]

\* the parameters of get_endpoint: a tuple, or any other value (already as text)
Tuple(items) == [tuple |-> TRUE, items |-> items]

Scalar(v) == [tuple |-> FALSE, items |-> <<v>>]

Placeholders(tpl) == Cardinality({i \in 1..Len(tpl) : tpl[i] = "{}"})

RECURSIVE Format(_, _)
\* str.format(*items): placeholders take the items in order, extra items are ignored
Format(tpl, items) ==
    IF tpl = <<>> THEN ""
    ELSE IF Head(tpl) = "{}" THEN Head(items) \o Format(Tail(tpl), Tail(items))
    ELSE Head(tpl) \o Format(Tail(tpl), items)

\* a builder that answers None when parameters are missing
get_endpoint_lenient(action, params) ==
    IF action \notin DOMAIN API_ENDPOINTS THEN Return(None)
    ELSE IF Placeholders(API_ENDPOINTS[action]) > Len(params.items)
    THEN Return(None)
    ELSE Return(Some(API_ROOT \o Format(API_ENDPOINTS[action], params.items)))

\* a builder that leaves the root out
get_endpoint_no_root(action, params) ==
    IF action \notin DOMAIN API_ENDPOINTS THEN Return(None)
    ELSE IF Placeholders(API_ENDPOINTS[action]) > Len(params.items)
    THEN Raise("IndexError", "Replacement index out of range")
    ELSE Return(Some(Format(API_ENDPOINTS[action], params.items)))

get_endpoint(action, params) ==
    IF action \notin DOMAIN API_ENDPOINTS THEN Return(None)
    ELSE IF Placeholders(API_ENDPOINTS[action]) > Len(params.items)
    THEN Raise("IndexError", "Replacement index out of range")
    ELSE Return(Some(API_ROOT \o Format(API_ENDPOINTS[action], params.items)))

\* str() of an optional integer, as str.format renders it
StrOpt(o) == IF o = None THEN "None" ELSE ToString(Val(o))

----------------------------------------------------------------------------
(* Entities: read-only views over one parsed JSON object *)

\* Entity._get_value: `default` is accepted and never used
get_value(results, key, default) ==
    IF key \in DOMAIN results THEN Some(results[key]) ELSE None

Entity_id(e) == get_value(e.results, "id", None)

Entity_name(e) == get_value(e.results, "name", Some(<<>>))

TvShowFromSearch(results) == [cls |-> "TvShowFromSearch", results |-> results]

\* a constructor that parses the mapping itself into a first season
TvShow_prefilled(results) ==
    [cls |-> "TvShow", results |-> results,
     seasons |-> <<[cls |-> "Season", results |-> results, episodes |-> <<>>]>>]

TvShow(results) == [cls |-> "TvShow", results |-> results, seasons |-> <<>>]

\* TvShow.tot_seasons: int(None) is a TypeError
TvShow_tot_seasons(e) ==
    IF get_value(e.results, "number_of_seasons", None) = None
    THEN Raise("TypeError", "int() argument must be a number, not 'NoneType'")
    ELSE Return(Val(get_value(e.results, "number_of_seasons", None)))

Episode(results) ==
    [cls |-> "Episode", results |-> results,
     crew |-> get_value(results, "crew", None),
     characters |-> None,
     guest_stars |-> get_value(results, "guest_stars", None)]

Season(results) == [cls |-> "Season", results |-> results, episodes |-> <<>>]

\* Season.parse_season: results['episodes'] is a plain subscript
Season_parse_season(results) ==
    IF "episodes" \notin DOMAIN results THEN Raise("KeyError", "episodes")
    ELSE Return([Season(results) EXCEPT
                   !.episodes = [i \in 1..Len(results.episodes) |->
                                   Episode(results.episodes[i])]])

DailyTvPrograms(results) ==
    [cls |-> "DailyTvPrograms", results |-> results,
     aired_shows |-> get_value(results, "results", Some(<<>>))]

DailyTvPrograms_total_pages(e) == get_value(e.results, "total_pages", None)

----------------------------------------------------------------------------
(* Session: payload, the GET-and-wrap call, the pure part of each operation *)

\* a payload that always carries the default language
get_payload_default_language(s) == [api_key |-> s.api_key, language |-> "en-US"]

get_payload(s) == [api_key |-> s.api_key, language |-> s.lang]

\* payload[key] = value
Put(d, key, value) ==
    [k \in DOMAIN d \cup {key} |-> IF k = key THEN value ELSE d[k]]

\* {"status": "ok", **json}: a key of the body overrides the literal
Merge(a, b) ==
    [k \in DOMAIN a \cup DOMAIN b |-> IF k \in DOMAIN b THEN b[k] ELSE a[k]]

\* a wrapping whose error text keeps the reason and drops the status code
call_endpoint_drops_code(response) ==
    IF response.status_code = 200
    THEN Merge([status |-> "ok"], response.json)
    ELSE [status |-> "ko", error |-> response.reason]

\* the wrapping that _call_endpoint applies to the response of requests.get
call_endpoint(response) ==
    IF response.status_code = 200
    THEN Merge([status |-> "ok"], response.json)
    ELSE [status |-> "ko",
          error  |-> ToString(response.status_code) \o " - " \o response.reason]

Request(url, payload) == [url |-> url, payload |-> payload]

Url(action, params) == Val(get_endpoint(action, params).val)

\* search_show after the search call: the check of the status and the filter
search_show(resp, showname, exact) ==
    IF ~(resp.status = "ok")
    THEN IF "error" \in DOMAIN resp
         THEN Raise("TmDBSessionException", "Operation failed:\n " \o resp.error)
         ELSE Raise("KeyError", "error")
    ELSE IF "results" \notin DOMAIN resp THEN Raise("KeyError", "results")
    ELSE LET shows == [i \in 1..Len(resp.results) |->
                          TvShowFromSearch(resp.results[i])]
             Match(show) == Lower(Val(Entity_name(show))) = Lower(showname)
         IN  IF exact
             THEN IF \E i \in 1..Len(shows) : Entity_name(shows[i]) = None
                  THEN Raise("AttributeError",
                             "'NoneType' object has no attribute 'lower'")
                  ELSE Return(SelectSeq(shows, Match))
             ELSE Return(shows)

\* genres already cached plus the pairs appended before the first malformed entry
RECURSIVE AppendGenres(_, _)
AppendGenres(cache, gs) ==
    IF gs = <<>> THEN [genres |-> cache, exc |-> None]
    ELSE IF {"id", "name"} \subseteq DOMAIN Head(gs)
    THEN AppendGenres(Append(cache, <<Head(gs).id, Head(gs).name>>), Tail(gs))
    ELSE [genres |-> cache, exc |-> Some("KeyError")]

\* a fetch that remembers its failure as an entry of the cache
get_genres_negative(cache, result0) ==
    IF result0.status # "ok"
    THEN [genres |-> Append(cache, <<0, "failed">>), exc |-> None]
    ELSE IF "genres" \notin DOMAIN result0
    THEN [genres |-> cache, exc |-> Some("KeyError")]
    ELSE AppendGenres(cache, result0.genres)

\* _get_genres after the call: the cache afterwards and the fault, if any
get_genres(cache, result0) ==
    IF result0.status # "ok" THEN [genres |-> cache, exc |-> None]
    ELSE IF "genres" \notin DOMAIN result0
    THEN [genres |-> cache, exc |-> Some("KeyError")]
    ELSE AppendGenres(cache, result0.genres)

----------------------------------------------------------------------------
(* Inputs of the factory *)

Foo == <<"f","o","o">>

MediaTypeInputs ==
    Range(Split(MOVIE_SESSION_SYNONYM)) \cup Range(Split(TVSERIES_SESSION_SYNONYM))
    \cup {Foo, <<"T","V">>, <<"F","i","l","m">>, <<"T","e","l","e">>, <<>>,
          <<"v","i","e"," ","f">>, <<"e","l","e">>, <<"z","z">>}

ApiKeys == {"key1", "key2"}

LangInputs == {None, Some(""), Some("it")}

----------------------------------------------------------------------------
(* The caller obtains sessions from the factory *)

InitFactory ==
    /\ session = NoSession
    /\ op = NoOp
    /\ pc = "idle"
    /\ frame = NoFrame
    /\ calls = <<>>
    /\ resps = <<>>
    /\ result = NoResult
    /\ coll = <<>>
    /\ files = <<>>
    /\ entity = NoEntity

SessionFactory ==
    /\ pc = "idle"
    /\ \E media_type \in MediaTypeInputs, apy_key \in ApiKeys, lang \in LangInputs :
         /\ op' = [name |-> "session_factory", media_type |-> media_type,
                   apy_key |-> apy_key, lang |-> lang]
         /\ result' = session_factory(media_type, apy_key, lang)
         /\ session' = IF result'.kind = "return" THEN result'.val ELSE session
    /\ UNCHANGED <<pc, frame, calls, resps, coll, files, entity>>

NextFactory == SessionFactory

SpecFactory == InitFactory /\ [][NextFactory]_vars

----------------------------------------------------------------------------
\* C1: session_factory returns a TmDBTvSession for every word of the TV synonym
\* list, a TmDBMovieSession for every word of the movie synonym list, and raises
\* TmDBSessionException (no session is returned) for the unrecognized string "foo".
C1_SessionFactory ==
    op.name = "session_factory" =>
        /\ op.media_type \in Range(Split(TVSERIES_SESSION_SYNONYM)) =>
              /\ result.kind = "return"
              /\ result.val.cls = "TmDBTvSession"
              /\ session = result.val
        /\ op.media_type \in Range(Split(MOVIE_SESSION_SYNONYM)) =>
              /\ result.kind = "return"
              /\ result.val.cls = "TmDBMovieSession"
              /\ session = result.val
        /\ op.media_type = Foo =>
              /\ result.kind = "raise"
              /\ result.exc = "TmDBSessionException"

\* the factory has been called with the last TV synonym and returned a TV session
C1_Witness ==
    /\ op.name = "session_factory"
    /\ op.media_type = <<"s","h","o","w">>
    /\ result.kind = "return"
    /\ result.val.cls = "TmDBTvSession"

----------------------------------------------------------------------------
(* The server: what requests.get may answer *)

MaxResults == 2

MaxSeasons == 2

MaxPages == 3

SeqsUpTo(S, n) == UNION {[1..k -> S] : k \in 0..n}

OkResponse(json) == [status_code |-> 200, reason |-> "OK", json |-> json]

FailedResponses ==
    {[status_code |-> 401, reason |-> "Unauthorized",
      json |-> [success |-> FALSE, status_code |-> 7,
                status_message |-> "Invalid API key: You must be granted a valid key."]],
     [status_code |-> 404, reason |-> "Not Found",
      json |-> [success |-> FALSE, status_code |-> 34,
                status_message |-> "The resource you requested could not be found."]]}

Grimm == <<"G","r","i","m","m">>

ShowNames == {<<"G","R","I","M","M">>, <<"z","z">>}

\* entries of a search result list; the last one carries no name
ShowHits ==
    {[id |-> 1, name |-> Grimm],
     [id |-> 2, name |-> <<"g","r","i","m","m">>],
     [id |-> 3, name |-> <<"g","r","i","m">>],
     [id |-> 4]}

SearchResponses ==
    {OkResponse([page |-> 1, results |-> rs, total_pages |-> 1,
                 total_results |-> Len(rs)]) : rs \in SeqsUpTo(ShowHits, MaxResults)}
    \cup {OkResponse([page |-> 1])}
    \cup FailedResponses

\* the answers with at most one hit, for the generic search
FirstHitResponses ==
    {r \in SearchResponses :
        r.status_code = 200 /\ "results" \in DOMAIN r.json => Len(r.json.results) <= 1}

ShowIds == {1, 2}

ItemResponses ==
    {OkResponse([id |-> 1, name |-> Grimm, number_of_seasons |-> n,
                 status |-> "Ended"]) : n \in 0..MaxSeasons}
    \cup {OkResponse([id |-> 1, name |-> Grimm])}
    \cup FailedResponses

SeasonResponses ==
    {OkResponse([id |-> 10, season_number |-> 1,
                 episodes |-> <<[episode_number |-> 1], [episode_number |-> 2]>>]),
     OkResponse([id |-> 20, season_number |-> 2, episodes |-> <<>>]),
     OkResponse([id |-> 30, season_number |-> 3])}
    \cup FailedResponses

GenreResponses ==
    {OkResponse([genres |-> gs]) :
        gs \in {<<>>,
                <<[id |-> 18, name |-> "Drama"]>>,
                <<[id |-> 18, name |-> "Drama"], [id |-> 35, name |-> "Comedy"]>>,
                <<[id |-> 18, name |-> "Drama"], [id |-> 35]>>}}
    \cup {OkResponse([page |-> 1])}
    \cup FailedResponses

AiredA == <<[id |-> 1, name |-> Grimm], [id |-> 2, name |-> <<"F","a","r","g","o">>]>>

AiredB == <<[id |-> 3, name |-> <<"L","o","s","t">>]>>

\* the first page of airing_today: it reports total_pages, or is an error body
FirstPageResponses ==
    {OkResponse([page |-> 1, results |-> rs, total_pages |-> n,
                 total_results |-> Len(rs)]) :
        rs \in {AiredA, <<>>}, n \in 0..MaxPages}
    \cup FailedResponses

\* a later page: what it reports as total_pages is never read
PageResponses ==
    {OkResponse([page |-> 2, results |-> AiredA, total_pages |-> MaxPages + 1,
                 total_results |-> 2]),
     OkResponse([page |-> 3, results |-> AiredB, total_pages |-> 0,
                 total_results |-> 1])}
    \cup {CHOOSE r \in FailedResponses : r.status_code = 404}

Languages == {"en-US", "it"}

SearchTypes == {"movie", "tv"}

----------------------------------------------------------------------------
(* The operations of a session *)

\* the caller has just obtained the session from the factory
Init ==
    /\ \E media_type \in {<<"t","v">>, <<"m","o","v","i","e">>}, lang \in LangInputs :
         /\ op = [name |-> "session_factory", media_type |-> media_type,
                  apy_key |-> "key1", lang |-> lang]
         /\ result = session_factory(media_type, "key1", lang)
         /\ session = session_factory(media_type, "key1", lang).val
    /\ pc = "idle"
    /\ frame = NoFrame
    /\ calls = <<>>
    /\ resps = <<>>
    /\ coll = <<>>
    /\ files = <<>>
    /\ entity = NoEntity

\* an operation that runs to its end in one step
Complete(o, reqs, rs, res) ==
    /\ op' = o
    /\ calls' = reqs
    /\ resps' = rs
    /\ result' = res
    /\ pc' = "idle"
    /\ frame' = NoFrame

IsTv == session.cls = "TmDBTvSession"

\* language.setter
SetLanguage ==
    /\ pc = "idle"
    /\ \E value \in Languages :
         /\ session' = [session EXCEPT !.lang = value]
         /\ Complete([name |-> "language", value |-> value], <<>>, <<>>, Return(None))
    /\ UNCHANGED <<coll, files, entity>>

\* a property that fetches on every access
genres_not_cached_ever(genres) == TRUE

\* `not self._genres`: the cache is empty
genres_not_cached(genres) == genres = <<>>

\* the genres property
Genres ==
    /\ pc = "idle"
    /\ IF genres_not_cached(session.genres)
       THEN \E response \in GenreResponses :
              LET got == get_genres(session.genres, call_endpoint(response))
              IN  /\ session' = [session EXCEPT !.genres = got.genres]
                  /\ Complete([name |-> "genres"],
                              <<Request(Url("genres", Scalar(session.media)),
                                        get_payload(session))>>,
                              <<response>>,
                              IF got.exc = None THEN Return(got.genres)
                              ELSE Raise(Val(got.exc), "genres"))
       ELSE /\ Complete([name |-> "genres"], <<>>, <<>>, Return(session.genres))
            /\ UNCHANGED session
    /\ UNCHANGED <<coll, files, entity>>

\* TmDBSession.search
Search ==
    /\ pc = "idle"
    /\ \E query \in ShowNames, search_type \in SearchTypes,
          response \in FirstHitResponses :
         Complete([name |-> "search", query |-> query, search_type |-> search_type],
                  <<Request(Url("find", Scalar(search_type)),
                            Put(get_payload(session), "query", query))>>,
                  <<response>>,
                  Return(call_endpoint(response)))
    /\ UNCHANGED <<session, coll, files, entity>>

\* TmDBSession.get_item
GetItem ==
    /\ pc = "idle"
    /\ \E id \in ShowIds, search_type \in SearchTypes, response \in ItemResponses :
         Complete([name |-> "get_item", id |-> id, search_type |-> search_type],
                  <<Request(Url("item", Tuple(<<search_type, ToString(id)>>)),
                            get_payload(session))>>,
                  <<response>>,
                  Return(call_endpoint(response)))
    /\ UNCHANGED <<session, coll, files, entity>>

\* TmDBTvSession.get_season
GetSeason ==
    /\ pc = "idle"
    /\ IsTv
    /\ \E show_id \in ShowIds, season_no \in 1..MaxSeasons,
          response \in SeasonResponses :
         Complete([name |-> "get_season", show_id |-> show_id, season_no |-> season_no],
                  <<Request(Url("season", Tuple(<<ToString(show_id), ToString(season_no)>>)),
                            get_payload(session))>>,
                  <<response>>,
                  Return(call_endpoint(response)))
    /\ UNCHANGED <<session, coll, files, entity>>

\* TmDBTvSession.search_show
SearchShow ==
    /\ pc = "idle"
    /\ IsTv
    /\ \E showname \in ShowNames, exact \in BOOLEAN, response \in SearchResponses :
         Complete([name |-> "search_show", showname |-> showname, exact |-> exact],
                  <<Request(Url("find", Scalar("tv")),
                            Put(get_payload(session), "query", showname))>>,
                  <<response>>,
                  search_show(call_endpoint(response), showname, exact))
    /\ UNCHANGED <<session, coll, files, entity>>

\* TmDBTvSession.get_show
GetShow ==
    /\ pc = "idle"
    /\ IsTv
    /\ \E show_id \in ShowIds, response \in ItemResponses :
         Complete([name |-> "get_show", show_id |-> show_id],
                  <<Request(Url("item", Tuple(<<"tv", ToString(show_id)>>)),
                            get_payload(session))>>,
                  <<response>>,
                  Return(TvShow(call_endpoint(response))))
    /\ UNCHANGED <<session, coll, files, entity>>

\* DailyTvProgramsCollection.add_page
add_page(pages, page) == Append(pages, page)

\* DailyTvPrograms.get_shows: iterating None is a TypeError, show['id'] and
\* show['name'] are plain subscripts
DailyTvPrograms_get_shows(page) ==
    IF page.aired_shows = None
    THEN Raise("TypeError", "'NoneType' object is not iterable")
    ELSE LET shows == Val(page.aired_shows)
         IN  IF \E i \in 1..Len(shows) : ~({"id", "name"} \subseteq DOMAIN shows[i])
             THEN Raise("KeyError", "id or name")
             ELSE Return([i \in 1..Len(shows) |-> <<shows[i].id, shows[i].name>>])

RECURSIVE ExtendShows(_, _)
\* the loop of DailyTvProgramsCollection.get_shows: retval.extend(page.get_shows())
ExtendShows(retval, pages) ==
    IF pages = <<>> THEN Return(retval)
    ELSE IF DailyTvPrograms_get_shows(Head(pages)).kind = "raise"
    THEN DailyTvPrograms_get_shows(Head(pages))
    ELSE ExtendShows(retval \o DailyTvPrograms_get_shows(Head(pages)).val, Tail(pages))

Collection_get_shows(pages) == ExtendShows(<<>>, pages)

\* get_show_and_seasons up to the start of its loop: the show fetch and
\* range(0, show.tot_seasons)
GetShowAndSeasons ==
    /\ pc = "idle"
    /\ IsTv
    /\ \E show_id \in ShowIds, response \in ItemResponses :
         LET show == TvShow(call_endpoint(response))
             tot  == TvShow_tot_seasons(show)
         IN  /\ op' = [name |-> "get_show_and_seasons", show_id |-> show_id]
             /\ calls' = <<Request(Url("item", Tuple(<<"tv", ToString(show_id)>>)),
                                   get_payload(session))>>
             /\ resps' = <<response>>
             /\ IF tot.kind = "raise"
                THEN /\ result' = tot
                     /\ pc' = "idle"
                     /\ frame' = NoFrame
                ELSE /\ result' = NoResult
                     /\ pc' = "seasons"
                     /\ frame' = [fn |-> "get_show_and_seasons", show |-> show,
                                  seasons |-> <<>>, season_no |-> 0, stop |-> tot.val]
    /\ UNCHANGED <<session, coll, files, entity>>

\* the season asked for in iteration season_no, taken as the loop variable itself
season_arg_zero_based(season_no) == season_no

\* the season asked for in iteration season_no of range(0, tot_seasons)
season_arg(season_no) == season_no + 1

\* one iteration: get_season(show.id, season_no + 1), then Season.parse_season
SeasonStep ==
    /\ pc = "seasons"
    /\ frame.season_no < frame.stop
    /\ \E response \in SeasonResponses :
         LET parsed == Season_parse_season(call_endpoint(response))
         IN  /\ calls' = Append(calls,
                           Request(Url("season",
                                       Tuple(<<StrOpt(Entity_id(frame.show)),
                                               ToString(season_arg(frame.season_no))>>)),
                                   get_payload(session)))
             /\ resps' = Append(resps, response)
             /\ IF parsed.kind = "raise"
                THEN /\ result' = parsed
                     /\ pc' = "idle"
                     /\ frame' = NoFrame
                ELSE /\ frame' = [frame EXCEPT !.seasons = Append(@, parsed.val),
                                               !.season_no = @ + 1]
                     /\ UNCHANGED <<result, pc>>
    /\ UNCHANGED <<session, op, coll, files, entity>>

\* the range is exhausted: return show, seasons
SeasonsReturn ==
    /\ pc = "seasons"
    /\ ~(frame.season_no < frame.stop)
    /\ result' = Return(<<frame.show, frame.seasons>>)
    /\ pc' = "idle"
    /\ frame' = NoFrame
    /\ UNCHANGED <<session, op, calls, resps, coll, files, entity>>

\* a range that stops one page early
pages_range_stop_exclusive(total_pages) == total_pages

\* the stop of range(2, at.total_pages + 1)
pages_range_stop(total_pages) == total_pages + 1

\* airing_today up to the start of its loop: the first fetch and
\* range(2, at.total_pages + 1), where None + 1 is a TypeError
AiringToday ==
    /\ pc = "idle"
    /\ IsTv
    /\ \E response \in FirstPageResponses :
         LET payload == Put(get_payload(session), "language", session.lang)
             at      == DailyTvPrograms(response.json)
         IN  /\ op' = [name |-> "airing_today"]
             /\ calls' = <<Request(Url("airing_today", Scalar("None")), payload)>>
             /\ resps' = <<response>>
             /\ IF DailyTvPrograms_total_pages(at) = None
                THEN /\ result' = Raise("TypeError",
                            "unsupported operand type(s) for +: 'NoneType' and 'int'")
                     /\ pc' = "idle"
                     /\ frame' = NoFrame
                ELSE /\ result' = NoResult
                     /\ pc' = "pages"
                     /\ frame' = [fn |-> "airing_today", payload |-> payload,
                                  page_coll |-> add_page(<<>>, at), at |-> at, i |-> 2,
                                  stop |-> pages_range_stop(
                                             Val(DailyTvPrograms_total_pages(at)))]
    /\ UNCHANGED <<session, coll, files, entity>>

\* one iteration for page i: the guard that breaks, else the fetch and add_page
PageStep ==
    /\ pc = "pages"
    /\ frame.i < frame.stop
    /\ \E response \in PageResponses :
         IF frame.i > Val(DailyTvPrograms_total_pages(frame.at))
         THEN /\ result' = Return(frame.page_coll)
              /\ pc' = "idle"
              /\ frame' = NoFrame
              /\ UNCHANGED <<calls, resps>>
         ELSE /\ calls' = Append(calls,
                            Request(Url("airing_today", Scalar("None")),
                                    Put(frame.payload, "page", frame.i)))
              /\ resps' = Append(resps, response)
              /\ frame' = [frame EXCEPT
                             !.payload = Put(@, "page", frame.i),
                             !.page_coll = add_page(@, DailyTvPrograms(response.json)),
                             !.i = @ + 1]
              /\ UNCHANGED <<result, pc>>
    /\ UNCHANGED <<session, op, coll, files, entity>>

\* the range is exhausted: return page_coll
PagesReturn ==
    /\ pc = "pages"
    /\ ~(frame.i < frame.stop)
    /\ result' = Return(frame.page_coll)
    /\ pc' = "idle"
    /\ frame' = NoFrame
    /\ UNCHANGED <<session, op, calls, resps, coll, files, entity>>

Next ==
    \/ SetLanguage
    \/ Genres
    \/ Search
    \/ GetItem
    \/ GetSeason
    \/ SearchShow
    \/ GetShow
    \/ GetShowAndSeasons
    \/ SeasonStep
    \/ SeasonsReturn
    \/ AiringToday
    \/ PageStep
    \/ PagesReturn

Spec == Init /\ [][Next]_vars

\* the loops run to their end: a synchronous call returns, the for loop goes on
LiveSpec == Spec /\ WF_vars(SeasonStep \/ SeasonsReturn \/ PageStep \/ PagesReturn)

----------------------------------------------------------------------------
(* Claims about the session operations *)

Max(a, b) == IF a > b THEN a ELSE b

\* the hits of a result list whose name equals showname ignoring case, in order
ExactHits(rs, showname) ==
    LET Same(r) == "name" \in DOMAIN r /\ Lower(r.name) = Lower(showname)
    IN  SelectSeq(rs, Same)

\* C2: search_show on a successful search response: with exact=True the result is
\* the subsequence, in server order, of the response's results whose name equals
\* the given name ignoring case (empty when none matches); with exact=False it
\* has one Show per element of the results, in server order.
C2_SearchShow ==
    ( /\ op.name = "search_show"
      /\ resps[1].status_code = 200
      /\ "results" \in DOMAIN resps[1].json )
    => /\ result.kind = "return"
       /\ LET rs   == resps[1].json.results
              want == IF op.exact THEN ExactHits(rs, op.showname) ELSE rs
          IN  /\ Len(result.val) = Len(want)
              /\ \A i \in 1..Len(want) :
                    /\ result.val[i].cls = "TvShowFromSearch"
                    /\ \A k \in DOMAIN want[i] : result.val[i].results[k] = want[i][k]

AiringFetches ==
    op.name = "airing_today" =>
        /\ Len(calls) >= 1
        /\ Len(resps) = Len(calls)
        /\ "page" \notin DOMAIN calls[1].payload
        /\ \A i \in 1..Len(calls) : calls[i].url = API_ROOT \o "/tv/airing_today"
        /\ \A i \in 2..Len(calls) :
              /\ "page" \in DOMAIN calls[i].payload
              /\ calls[i].payload.page = i
        /\ pc = "pages" =>
              /\ Len(calls) <= Max(1, resps[1].json.total_pages)
              /\ Len(frame.page_coll) = Len(calls)
              /\ \A i \in 1..Len(calls) : frame.page_coll[i].results = resps[i].json
        /\ result.kind = "return" =>
              /\ Len(calls) = Max(1, resps[1].json.total_pages)
              /\ Len(result.val) = Len(calls)
              /\ \A i \in 1..Len(calls) : result.val[i].results = resps[i].json

\* C4 as amended: airing_today issues total_pages fetches when the first page
\* reports total_pages >= 1 and exactly one fetch when it reports 0 or 1; the first
\* fetch carries no page parameter, the later ones page = 2, 3, ..., total_pages in
\* ascending order, each answer is appended as one page in that order, and the
\* loop terminates.
C4_AiringToday == []AiringFetches /\ ((pc = "pages") ~> (pc = "idle"))

\* airing_today returned three pages fetched as pages (none), 2, 3
C4_Witness ==
    /\ op.name = "airing_today"
    /\ result.kind = "return"
    /\ Len(calls) >= 3
    /\ Len(result.val) = Len(calls)

\* C4 as stated: when airing_today returns, the number of fetches issued equals
\* the total_pages value the first page reported.
C4_FetchesEqualTotalPages ==
    (op.name = "airing_today" /\ result.kind = "return")
    => Len(calls) = resps[1].json.total_pages

\* the pairs of a well-formed genres answer
GenrePairs(json) == [i \in 1..Len(json.genres) |-> <<json.genres[i].id, json.genres[i].name>>]

WellFormedGenres(response) ==
    /\ response.status_code = 200
    /\ "genres" \in DOMAIN response.json
    /\ \A i \in 1..Len(response.json.genres) :
          {"id", "name"} \subseteq DOMAIN response.json.genres[i]

\* C6: an access to genres while the cache is empty issues exactly one call, to
\* the genres endpoint of the session's media name, and on a well-formed answer
\* yields and caches the fetched (id, name) list; an access while the cache is
\* populated returns the cached list, leaves it as it is and issues no call.
C6_GenresLazy ==
    [][ (pc = "idle" /\ pc' = "idle" /\ op'.name = "genres") =>
          /\ session.genres = <<>> =>
                /\ Len(calls') = 1
                /\ calls'[1].url = API_ROOT \o "/genre/" \o session.media \o "/list"
                /\ WellFormedGenres(resps'[1]) =>
                      /\ result' = Return(GenrePairs(resps'[1].json))
                      /\ session'.genres = GenrePairs(resps'[1].json)
          /\ session.genres # <<>> =>
                /\ calls' = <<>>
                /\ result' = Return(session.genres)
                /\ session'.genres = session.genres ]_vars

\* genres was read from a populated cache: no call, the cached pairs returned
C6_Witness ==
    /\ op.name = "genres"
    /\ calls = <<>>
    /\ result.kind = "return"
    /\ Len(result.val) = 2
    /\ session.genres = result.val

\* C7: when the search answer carries the failure marker (a status other than
\* 200), search_show raises a TmDBSessionException whose message carries the
\* answer's status code and reason, and returns nothing.
C7_SearchShowFailed ==
    (op.name = "search_show" /\ resps[1].status_code # 200)
    => result = Raise("TmDBSessionException",
                      "Operation failed:\n " \o ToString(resps[1].status_code)
                        \o " - " \o resps[1].reason)

\* search_show met a 404 and raised
C7_Witness ==
    /\ op.name = "search_show"
    /\ resps[1].status_code = 404
    /\ result.kind = "raise"
    /\ result.exc = "TmDBSessionException"

\* C8: whatever the call site, an operation that received a failed answer raises
\* a TmDBSessionException; the failed answer is never returned as a value.
C8_FailureRaisesEverywhere ==
    ( /\ pc = "idle"
      /\ op.name \in {"search", "search_show", "get_item", "get_show", "get_season",
                      "get_show_and_seasons", "genres"}
      /\ \E i \in 1..Len(resps) : resps[i].status_code # 200 )
    => (result.kind = "raise" /\ result.exc = "TmDBSessionException")

----------------------------------------------------------------------------
(* A DailyTvProgramsCollection on its own: pages added one by one, get_shows *)

MaxCollPages == 3

\* bodies a page is built from: airing_today wraps whatever a fetch answered,
\* the body of a failed fetch included
PageBodies ==
    {[page |-> 1, results |-> AiredA, total_pages |-> 2, total_results |-> 2],
     [page |-> 2, results |-> AiredB, total_pages |-> 2, total_results |-> 1],
     [page |-> 1, results |-> <<>>, total_pages |-> 0, total_results |-> 0],
     [status |-> "ko", error |-> "404 - Not Found"]}

InitColl ==
    /\ session = NoSession
    /\ op = NoOp
    /\ pc = "idle"
    /\ frame = NoFrame
    /\ calls = <<>>
    /\ resps = <<>>
    /\ result = NoResult
    /\ coll = <<>>
    /\ files = <<>>
    /\ entity = NoEntity

\* collection.add_page(DailyTvPrograms(body))
AddPage ==
    /\ Len(coll) < MaxCollPages
    /\ \E body \in PageBodies :
         /\ coll' = add_page(coll, DailyTvPrograms(body))
         /\ op' = [name |-> "add_page"]
         /\ result' = Return(None)
    /\ UNCHANGED <<session, pc, frame, calls, resps, files, entity>>

\* collection.get_shows()
GetShows ==
    /\ op' = [name |-> "get_shows"]
    /\ result' = Collection_get_shows(coll)
    /\ UNCHANGED <<session, pc, frame, calls, resps, coll, files, entity>>

NextColl == AddPage \/ GetShows

SpecColl == InitColl /\ [][NextColl]_vars

\* the (id, name) pairs of the shows listed in a body; a body that lists none has none
BodyPairs(body) ==
    IF "results" \in DOMAIN body
    THEN [i \in 1..Len(body.results) |-> <<body.results[i].id, body.results[i].name>>]
    ELSE <<>>

RECURSIVE ConcatPairs(_)
ConcatPairs(pages) ==
    IF pages = <<>> THEN <<>>
    ELSE BodyPairs(Head(pages).results) \o ConcatPairs(Tail(pages))

\* C5: after any sequence of add_page calls get_shows returns the concatenation
\* of the pages' (id, name) pairs, pages in the order added and pairs in their
\* order within the page.
C5_GetShowsConcat ==
    (op.name = "get_shows") => (result = Return(ConcatPairs(coll)))

----------------------------------------------------------------------------
(* Image download: _get_image and the files it writes *)

\* a Configuration as constructed, and one with the base urls filled in
Confs ==
    {[img_base_url |-> None, img_secure_base_url |-> None, img_poster_sizes |-> <<>>],
     [img_base_url |-> Some("http://image.tmdb.org/t/p/"),
      img_secure_base_url |-> Some("https://image.tmdb.org/t/p/"),
      img_poster_sizes |-> <<"w92", "w342", "original">>]}

ImageNames == {"poster.jpg"}

\* size arguments: tokens of PosterTmdbImageSizes, a token no list has, and None
ImageSizes == {Some("original"), Some("w92"), Some("w999"), None}

\* directories that exist on the local disk; open() creates no directory
ExistingDirs == {"/tmp/posters"}

LocalPaths == {"/tmp/posters", "/tmp/missing"}

LocalFilenames == {"a.jpg", "b.jpg"}

\* answers of the image server: status code and body (bytes as small numbers)
ImageResponses ==
    {[status_code |-> 200, content |-> <<>>],
     [status_code |-> 200, content |-> <<1, 2>>],
     [status_code |-> 200, content |-> <<7>>],
     [status_code |-> 203, content |-> <<9>>],
     [status_code |-> 404, content |-> <<4, 0, 4>>]}

ChunkSize == 1024

\* how an f-string renders an optional string, None included
FmtUrl(o) == IF o = None THEN "None" ELSE Val(o)

image_url(conf, img_name, size, secure) ==
    FmtUrl(IF secure THEN conf.img_secure_base_url ELSE conf.img_base_url)
      \o FmtUrl(size) \o "/" \o img_name

\* os.path.join of a directory without trailing separator and a relative name
path_join(local_path, local_filename) == local_path \o "/" \o local_filename

RECURSIVE iter_content(_, _)
\* r.iter_content(chunk_size): the body in pieces of at most chunk_size bytes
iter_content(content, chunk_size) ==
    IF content = <<>> THEN <<>>
    ELSE IF Len(content) <= chunk_size THEN <<content>>
    ELSE <<SubSeq(content, 1, chunk_size)>>
           \o iter_content(SubSeq(content, chunk_size + 1, Len(content)), chunk_size)

RECURSIVE write_chunks(_, _)
\* fh.write(chunk) for each chunk, on a file opened 'wb' (so starting empty)
write_chunks(written, chunks) ==
    IF chunks = <<>> THEN written
    ELSE write_chunks(written \o Head(chunks), Tail(chunks))

\* a test that lets every answer through
image_writes_always(r) == TRUE

\* if r.status_code == 200
image_writes(r) == r.status_code = 200

\* the body of _get_image after the GET: the files afterwards and the outcome
image_store(fs, r, local_path, local_filename) ==
    IF ~image_writes(r)
    THEN [files |-> fs, result |-> Return(None)]
    ELSE IF local_path \notin ExistingDirs
    THEN [files |-> fs,
          result |-> Raise("FileNotFoundError", path_join(local_path, local_filename))]
    ELSE [files |-> Put(fs, path_join(local_path, local_filename),
                        write_chunks(<<>>, iter_content(r.content, ChunkSize))),
          result |-> Return(None)]

InitImage ==
    /\ session = NoSession
    /\ op = NoOp
    /\ pc = "idle"
    /\ frame = NoFrame
    /\ calls = <<>>
    /\ resps = <<>>
    /\ result = NoResult
    /\ coll = <<>>
    /\ files = <<>>
    /\ entity = NoEntity

\* _get_image(conf, img_name, size, local_path, local_filename, secure)
GetImage ==
    \E conf \in Confs, img_name \in ImageNames, size \in ImageSizes,
       local_path \in LocalPaths, local_filename \in LocalFilenames,
       secure \in BOOLEAN, r \in ImageResponses :
         /\ op' = [name |-> "_get_image", conf |-> conf, img_name |-> img_name,
                   size |-> size, secure |-> secure, local_path |-> local_path,
                   local_filename |-> local_filename]
         /\ calls' = <<[url |-> image_url(conf, img_name, size, secure), stream |-> TRUE]>>
         /\ resps' = <<r>>
         /\ files' = image_store(files, r, local_path, local_filename).files
         /\ result' = image_store(files, r, local_path, local_filename).result
         /\ UNCHANGED <<session, pc, frame, coll, entity>>

NextImage == GetImage

SpecImage == InitImage /\ [][NextImage]_vars

\* the statuses HTTP calls successful
SuccessStatus(code) == code \in 200..299

\* the destination of the download just made
Destination == op'.local_path \o "/" \o op'.local_filename

----------------------------------------------------------------------------
(* Entity accessors, each applied to a mapping with or without its key *)

\* a parse with the members of 1 and 2 exchanged
Gender_parse_swapped(value) ==
    IF value = 1 THEN "male"
    ELSE IF value = 2 THEN "female"
    ELSE IF value = 0 THEN "undefined"
    ELSE "unknown"

\* Gender.parse on a number: the name of the member it returns
Gender_parse(value) ==
    IF value = 1 THEN "female"
    ELSE IF value = 2 THEN "male"
    ELSE IF value = 0 THEN "undefined"
    ELSE "unknown"

Person(results) == [cls |-> "Person", results |-> results]

\* Person.dob: strptime is called with one argument, a TypeError on every call
Person_dob(e) ==
    Raise("TypeError", "strptime() takes exactly 2 arguments (1 given)")

Person_bio(e) == Return(get_value(e.results, "biography", Some("")))

Person_profile_pic(e) == Return(get_value(e.results, "profile_path", None))

\* Character.__init__: Gender.parse(None) is int(None), a TypeError
Character(results) ==
    IF get_value(results, "gender", Some(-1)) = None
    THEN Raise("TypeError", "int() argument must be a number, not 'NoneType'")
    ELSE Return([cls |-> "Character", results |-> results,
                 charname |-> get_value(results, "character", Some("")),
                 gender |-> Gender_parse(Val(get_value(results, "gender", Some(-1))))])

Character_performer(e) == Return(Entity_name(e))

Character_character(e) == Return(e.charname)

Character_gender(e) == Return(Some(e.gender))

TvShowFromSearch_popularity(e) == Return(get_value(e.results, "popularity", None))

TvShowFromSearch_poster(e) == Return(get_value(e.results, "poster_path", None))

\* TvShow.is_running: bool(None) is False
TvShow_is_running(e) ==
    IF get_value(e.results, "in_production", None) = None THEN Return(FALSE)
    ELSE Return(Val(get_value(e.results, "in_production", None)))

TvShow_homepage(e) == Return(get_value(e.results, "homepage", None))

TvShow_status(e) == Return(get_value(e.results, "status", None))

TvShow_type(e) == Return(get_value(e.results, "type", None))

Season_season_number(e) == Return(get_value(e.results, "season_number", None))

Season_overview(e) == Return(get_value(e.results, "overview", None))

Season_poster(e) == Return(get_value(e.results, "poster_path", None))

Episode_air_date(e) == Return(get_value(e.results, "air_date", None))

Episode_number(e) == Return(get_value(e.results, "episode_number", None))

Episode_season_number(e) == Return(get_value(e.results, "season_number", None))

Episode_vote_avg_cnt(e) ==
    Return(<<get_value(e.results, "vote_average", None),
             get_value(e.results, "vote_count", None)>>)

\* Episode.overview: dict.get with a default that is honoured
Episode_overview(e) ==
    IF "overview" \in DOMAIN e.results THEN Return(Some(e.results.overview))
    ELSE Return(Some(""))

DailyTvPrograms_page(e) == Return(get_value(e.results, "page", None))

\* DailyTvPrograms.total_results: a plain subscript, then int(...) or 0
DailyTvPrograms_total_results(e) ==
    IF "total_results" \notin DOMAIN e.results THEN Raise("KeyError", "total_results")
    ELSE Return(e.results.total_results)

\* one full mapping for each entity class, as the API answers
SampleResults ==
    [Person |-> [id |-> 7, name |-> <<"A","n","n">>, biography |-> "bio",
                 profile_path |-> "/p.jpg", birthday |-> "1970-01-01"],
     Character |-> [id |-> 7, name |-> <<"A","n","n">>, character |-> "Nick",
                    gender |-> 2],
     TvShow |-> [id |-> 1, name |-> Grimm, popularity |-> 9, poster_path |-> "/g.jpg",
                 in_production |-> TRUE, homepage |-> "http://grimm.example",
                 number_of_seasons |-> 2, status |-> "Ended", type |-> "Scripted"],
     Season |-> [id |-> 10, name |-> <<"S","1">>, season_number |-> 1,
                 overview |-> "text", poster_path |-> "/s.jpg"],
     Episode |-> [id |-> 100, name |-> <<"P","i","l","o","t">>,
                  air_date |-> "2011-10-28", episode_number |-> 1,
                  season_number |-> 1, vote_average |-> 8, vote_count |-> 10,
                  overview |-> "text"],
     DailyTvPrograms |-> [page |-> 1, total_pages |-> 2, total_results |-> 3,
                          results |-> AiredA]]

EntityClasses == DOMAIN SampleResults

Restrict(d, keys) == [k \in keys |-> d[k]]

\* the full mapping, the mapping short of one key, and the empty mapping
Mappings(cls) ==
    {SampleResults[cls], Restrict(SampleResults[cls], {})}
    \cup {Restrict(SampleResults[cls], DOMAIN SampleResults[cls] \ {k}) :
            k \in DOMAIN SampleResults[cls]}

\* the field accessors of each class, each with the key it reads
Accessors ==
    [Person |-> [id |-> "id", name |-> "name", dob |-> "birthday",
                 bio |-> "biography", profile_pic |-> "profile_path"],
     Character |-> [id |-> "id", name |-> "name", performer |-> "name",
                    character |-> "character", gender |-> "gender"],
     TvShow |-> [id |-> "id", name |-> "name", popularity |-> "popularity",
                 poster |-> "poster_path", is_running |-> "in_production",
                 homepage |-> "homepage", tot_seasons |-> "number_of_seasons",
                 status |-> "status", type |-> "type"],
     Season |-> [id |-> "id", name |-> "name", season_number |-> "season_number",
                 overview |-> "overview", poster |-> "poster_path"],
     Episode |-> [id |-> "id", name |-> "name", air_date |-> "air_date",
                  number |-> "episode_number", season_number |-> "season_number",
                  vote_avg_cnt |-> "vote_average", overview |-> "overview"],
     DailyTvPrograms |-> [page |-> "page", total_pages |-> "total_pages",
                          total_results |-> "total_results"]]

\* construct the entity of class cls over results, then read the accessor
Access(cls, accessor, results) ==
    IF accessor = "id" /\ cls # "Character" THEN Return(get_value(results, "id", None))
    ELSE IF accessor = "name" /\ cls # "Character"
    THEN Return(get_value(results, "name", Some(<<>>)))
    ELSE IF cls = "Person"
    THEN CASE accessor = "dob" -> Person_dob(Person(results))
           [] accessor = "bio" -> Person_bio(Person(results))
           [] accessor = "profile_pic" -> Person_profile_pic(Person(results))
    ELSE IF cls = "Character"
    THEN IF Character(results).kind = "raise" THEN Character(results)
         ELSE CASE accessor = "id" -> Return(Entity_id(Character(results).val))
                [] accessor = "name" -> Return(Entity_name(Character(results).val))
                [] accessor = "performer" -> Character_performer(Character(results).val)
                [] accessor = "character" -> Character_character(Character(results).val)
                [] accessor = "gender" -> Character_gender(Character(results).val)
    ELSE IF cls = "TvShow"
    THEN CASE accessor = "popularity" -> TvShowFromSearch_popularity(TvShow(results))
           [] accessor = "poster" -> TvShowFromSearch_poster(TvShow(results))
           [] accessor = "is_running" -> TvShow_is_running(TvShow(results))
           [] accessor = "homepage" -> TvShow_homepage(TvShow(results))
           [] accessor = "tot_seasons" -> TvShow_tot_seasons(TvShow(results))
           [] accessor = "status" -> TvShow_status(TvShow(results))
           [] accessor = "type" -> TvShow_type(TvShow(results))
    ELSE IF cls = "Season"
    THEN CASE accessor = "season_number" -> Season_season_number(Season(results))
           [] accessor = "overview" -> Season_overview(Season(results))
           [] accessor = "poster" -> Season_poster(Season(results))
    ELSE IF cls = "Episode"
    THEN CASE accessor = "air_date" -> Episode_air_date(Episode(results))
           [] accessor = "number" -> Episode_number(Episode(results))
           [] accessor = "season_number" -> Episode_season_number(Episode(results))
           [] accessor = "vote_avg_cnt" -> Episode_vote_avg_cnt(Episode(results))
           [] accessor = "overview" -> Episode_overview(Episode(results))
    ELSE CASE accessor = "page" -> DailyTvPrograms_page(DailyTvPrograms(results))
           [] accessor = "total_pages" ->
                Return(DailyTvPrograms_total_pages(DailyTvPrograms(results)))
           [] accessor = "total_results" ->
                DailyTvPrograms_total_results(DailyTvPrograms(results))

\* an entity class, one of its accessors and a mapping are chosen; nothing read yet
InitEntity ==
    /\ session = NoSession
    /\ \E cls \in EntityClasses :
         \E accessor \in DOMAIN Accessors[cls], results \in Mappings(cls) :
            op = [name |-> "access", cls |-> cls, accessor |-> accessor,
                  key |-> Accessors[cls][accessor], results |-> results]
    /\ pc = "call"
    /\ frame = NoFrame
    /\ calls = <<>>
    /\ resps = <<>>
    /\ result = NoResult
    /\ coll = <<>>
    /\ files = <<>>
    /\ entity = NoEntity

\* the accessor is read
AccessEntity ==
    /\ pc = "call"
    /\ op.name = "access"
    /\ result' = Access(op.cls, op.accessor, op.results)
    /\ pc' = "idle"
    /\ UNCHANGED <<session, op, frame, calls, resps, coll, files, entity>>

NextEntity == AccessEntity

SpecEntity == InitEntity /\ [][NextEntity]_vars

\* what the accessor's documentation gives for an absent key
DocumentedDefault(accessor) ==
    CASE accessor \in {"name", "performer"} -> Some(<<>>)
      [] accessor \in {"bio", "character", "overview"} -> Some("")
      [] accessor = "gender" -> Some("unknown")
      [] accessor = "is_running" -> FALSE
      [] accessor = "total_results" -> 0
      [] accessor = "vote_avg_cnt" -> <<None, None>>
      [] OTHER -> None

\* C10: an accessor whose key is absent from the wrapped mapping returns None or
\* its documented default and never raises.
C10_AccessorsTotal ==
    (op.name = "access" /\ pc = "idle" /\ op.key \notin DOMAIN op.results)
    => /\ result.kind = "return"
       /\ \/ result.val = DocumentedDefault(op.accessor)
          \/ result.val = None

----------------------------------------------------------------------------
(* Size tokens *)

\* the size the configuration's poster list allows for a requested token
ValidatedSize(conf, size) ==
    IF size # None /\ \E i \in 1..Len(conf.img_poster_sizes) :
                         conf.img_poster_sizes[i] = Val(size)
    THEN size
    ELSE Some("original")

\* C11: the size used for a download is the requested token when the
\* configuration's list holds it, and "original" when it does not or when no
\* token was given.
C11_SizeValidated ==
    (op.name = "_get_image")
    => calls[1].url = image_url(op.conf, op.img_name,
                                ValidatedSize(op.conf, op.size), op.secure)

----------------------------------------------------------------------------
(* The endpoint builder on its own *)

MaxParams == 3

\* Python values given as route parameters: an int, a str or None
PyInt(n) == [int |-> n]

PyStr(t) == [str |-> t]

PyNone == [none |-> TRUE]

\* str(value), as str.format renders a parameter
str(value) ==
    IF "int" \in DOMAIN value THEN ToString(value.int)
    ELSE IF "str" \in DOMAIN value THEN value.str
    ELSE "None"

ParamValues == {PyInt(1234), PyInt(2), PyStr("tv")}

\* params arguments: tuples of up to MaxParams values, and single values
ParamInputs ==
    {Tuple(t) : t \in UNION {[1..n -> ParamValues] : n \in 0..MaxParams}}
    \cup {Scalar(v) : v \in ParamValues \cup {PyNone}}

ActionInputs == DOMAIN API_ENDPOINTS \cup {"unknown_action"}

\* the parameters with each value rendered as text
Rendered(params) ==
    [tuple |-> params.tuple,
     items |-> [i \in 1..Len(params.items) |-> str(params.items[i])]]

InitEndpoint ==
    /\ session = NoSession
    /\ op = NoOp
    /\ pc = "idle"
    /\ frame = NoFrame
    /\ calls = <<>>
    /\ resps = <<>>
    /\ result = NoResult
    /\ coll = <<>>
    /\ files = <<>>
    /\ entity = NoEntity

\* get_endpoint(action, params)
GetEndpoint ==
    /\ \E action \in ActionInputs, params \in ParamInputs :
         /\ op' = [name |-> "get_endpoint", action |-> action, params |-> params]
         /\ result' = get_endpoint(action, Rendered(params))
    /\ UNCHANGED <<session, pc, frame, calls, resps, coll, files, entity>>

NextEndpoint == GetEndpoint

SpecEndpoint == InitEndpoint /\ [][NextEndpoint]_vars

\* the actions of the endpoint table
KnownActions ==
    {"root", "config", "new_session", "find", "genres", "person", "item",
     "episode", "season", "airing_today"}

\* the text of each parameter of the call just made
P(i) == str(op.params.items[i])

\* the url each action stands for, written out with the call's parameters
ExpectedUrl ==
    CASE op.action = "root" -> "https://api.themoviedb.org/3https://api.themoviedb.org/3"
      [] op.action = "config" -> "https://api.themoviedb.org/3/configuration"
      [] op.action = "new_session" ->
           "https://api.themoviedb.org/3/authentication/session/new"
      [] op.action = "find" -> "https://api.themoviedb.org/3/search/" \o P(1)
      [] op.action = "genres" ->
           "https://api.themoviedb.org/3/genre/" \o P(1) \o "/list"
      [] op.action = "person" -> "https://api.themoviedb.org/3/person/" \o P(1)
      [] op.action = "item" ->
           "https://api.themoviedb.org/3/" \o P(1) \o "/" \o P(2)
      [] op.action = "episode" ->
           "https://api.themoviedb.org/3/tv/" \o P(1) \o "/season/" \o P(2)
             \o "/episode/" \o P(3)
      [] op.action = "season" ->
           "https://api.themoviedb.org/3/tv/" \o P(1) \o "/season/" \o P(2)
      [] op.action = "airing_today" -> "https://api.themoviedb.org/3/tv/airing_today"

\* the number of placeholders of each action's template
Arity ==
    [root |-> 0, config |-> 0, new_session |-> 0, find |-> 1, genres |-> 1,
     person |-> 1, item |-> 2, episode |-> 3, season |-> 2, airing_today |-> 0]

\* C12: for a known action and as many parameters as the template has
\* placeholders (a single value counting as a one-element tuple), the builder
\* returns the root followed by the template with the parameters substituted in
\* order; for an action not in the table it returns None and raises nothing.
C12_EndpointBuilder ==
    (op.name = "get_endpoint")
    => /\ (op.action \notin KnownActions) => (result = Return(None))
       /\ (op.action \in KnownActions /\ Len(op.params.items) = Arity[op.action])
          => (result = Return(Some(ExpectedUrl)))

\* ("season", (1234, 2)) gave the url ending in tv/1234/season/2
C12_Witness ==
    /\ op.name = "get_endpoint"
    /\ op.action = "season"
    /\ op.params = Tuple(<<PyInt(1234), PyInt(2)>>)
    /\ result = Return(Some("https://api.themoviedb.org/3/tv/1234/season/2"))

\* C19: for a known action, fewer parameters than the template has placeholders
\* end in an IndexError and no url; more parameters than placeholders raise
\* nothing: the surplus is ignored and the url is built from the leading ones.
C19_PlaceholderMismatch ==
    (op.name = "get_endpoint" /\ op.action \in KnownActions)
    => /\ (Len(op.params.items) < Arity[op.action])
          => (result.kind = "raise" /\ result.exc = "IndexError")
       /\ (Len(op.params.items) > Arity[op.action])
          => (result = Return(Some(ExpectedUrl)))

\* ("season", 1234) gave one parameter for two placeholders and raised
C19_Witness ==
    /\ op.name = "get_endpoint"
    /\ op.action = "season"
    /\ op.params = Scalar(PyInt(1234))
    /\ result.kind = "raise"

\* C19 as stated: any difference between the number of parameters and the
\* number of placeholders, fewer or more, ends in a fault and never in a url.
C19_MismatchIsFatal ==
    (op.name = "get_endpoint" /\ op.action \in KnownActions
       /\ Len(op.params.items) # Arity[op.action])
    => (result.kind = "raise")

----------------------------------------------------------------------------
(* The media classifier on its own *)

MaxTextLen == 3

TextAlphabet == {"t", "v", "e", " ", "x", "T"}

\* texts given to the classifier: every short text over the alphabet, the
\* synonym words and some mixed-case and unknown words
TextInputs == SeqsUpTo(TextAlphabet, MaxTextLen) \cup MediaTypeInputs

InitClassify ==
    /\ session = NoSession
    /\ op = NoOp
    /\ pc = "idle"
    /\ frame = NoFrame
    /\ calls = <<>>
    /\ resps = <<>>
    /\ result = NoResult
    /\ coll = <<>>
    /\ files = <<>>
    /\ entity = NoEntity

\* _parse_media(value)
ParseMedia ==
    /\ \E value \in TextInputs :
         /\ op' = [name |-> "_parse_media", value |-> value]
         /\ result' = Return(parse_media(value))
    /\ UNCHANGED <<session, pc, frame, calls, resps, coll, files, entity>>

NextClassify == ParseMedia

SpecClassify == InitClassify /\ [][NextClassify]_vars

\* the words of the two synonym lists
MovieSynonyms == Range(Split(MOVIE_SESSION_SYNONYM))

TvSynonyms == Range(Split(TVSERIES_SESSION_SYNONYM))

\* text, lower-cased letter by letter, occurs in s between two positions
OccursIn(text, s) ==
    \E from \in 1..(Len(s) + 1), to \in 0..Len(s) :
       /\ to - from + 1 = Len(text)
       /\ \A k \in 1..Len(text) : s[from + k - 1] = LowerChar(text[k])

----------------------------------------------------------------------------
(* Gender.parse on its own *)

MaxGenderValue == 99

\* the integers given to Gender.parse
GenderInputs == (0 - MaxGenderValue)..MaxGenderValue

InitGender ==
    /\ session = NoSession
    /\ op = NoOp
    /\ pc = "idle"
    /\ frame = NoFrame
    /\ calls = <<>>
    /\ resps = <<>>
    /\ result = NoResult
    /\ coll = <<>>
    /\ files = <<>>
    /\ entity = NoEntity

\* Gender.parse(value)
GenderParse ==
    /\ \E value \in GenderInputs :
         /\ op' = [name |-> "Gender.parse", value |-> value]
         /\ result' = Return(Gender_parse(value))
    /\ UNCHANGED <<session, pc, frame, calls, resps, coll, files, entity>>

NextGender == GenderParse

SpecGender == InitGender /\ [][NextGender]_vars

\* the members named by 0, 1 and 2, in that order
NamedGenders == <<"undefined", "female", "male">>

\* C14: Gender.parse returns undefined for 0, female for 1, male for 2 and
\* unknown for every other integer, negative ones included; it never raises.
C14_GenderParseTotal ==
    (op.name = "Gender.parse")
    => /\ result.kind = "return"
       /\ (op.value \in 0..2) => (result.val = NamedGenders[op.value + 1])
       /\ (op.value \notin 0..2) => (result.val = "unknown")

\* parse(2) gave male
C14_Witness ==
    /\ op.name = "Gender.parse"
    /\ op.value = 2
    /\ result = Return("male")

----------------------------------------------------------------------------
(* Shows and seasons the caller constructs, parses and reads *)

\* mappings a TvShow is built over: the bodies of the item answers
ShowBodies == {r.json : r \in ItemResponses}

\* mappings a Season is built over: the bodies of the season answers
SeasonBodies == {r.json : r \in SeasonResponses}

RECURSIVE TvShow_parse_seasons(_, _)
\* TvShow.parse_seasons: each season is parsed and appended in turn; a season
\* that cannot be parsed raises and leaves the ones before it appended
TvShow_parse_seasons(show, seasons) ==
    IF seasons = <<>> THEN [show |-> show, result |-> Return(None)]
    ELSE IF Season_parse_season(Head(seasons)).kind = "raise"
    THEN [show |-> show, result |-> Season_parse_season(Head(seasons))]
    ELSE TvShow_parse_seasons(
             [show EXCEPT !.seasons = Append(@, Season_parse_season(Head(seasons)).val)],
             Tail(seasons))

\* an operation of an entity, which issues no request
EntityOp(o, res) ==
    /\ pc = "idle"
    /\ op' = o
    /\ calls' = <<>>
    /\ resps' = <<>>
    /\ result' = res
    /\ UNCHANGED <<session, pc, frame, coll, files>>

\* show = TvShow(results)
NewTvShow ==
    \E results \in ShowBodies :
       /\ EntityOp([name |-> "TvShow", results |-> results], Return(TvShow(results)))
       /\ entity' = TvShow(results)

\* season = Season(results)
NewSeason ==
    \E results \in SeasonBodies :
       /\ EntityOp([name |-> "Season", results |-> results], Return(Season(results)))
       /\ entity' = Season(results)

\* season = Season.parse_season(results)
ParseSeason ==
    \E results \in SeasonBodies :
       /\ EntityOp([name |-> "parse_season", results |-> results],
                   Season_parse_season(results))
       /\ entity' = IF Season_parse_season(results).kind = "return"
                    THEN Season_parse_season(results).val
                    ELSE entity

\* show.parse_seasons(seasons)
ParseSeasons ==
    /\ entity.cls = "TvShow"
    /\ \E seasons \in SeqsUpTo(SeasonBodies, MaxSeasons) :
         /\ Len(entity.seasons) + Len(seasons) <= MaxSeasons
         /\ EntityOp([name |-> "parse_seasons", seasons |-> seasons],
                     TvShow_parse_seasons(entity, seasons).result)
         /\ entity' = TvShow_parse_seasons(entity, seasons).show

\* a field accessor of the held show or season is read
ReadEntity ==
    /\ entity.cls \in {"TvShow", "Season"}
    /\ \E accessor \in DOMAIN Accessors[entity.cls] :
         EntityOp([name |-> "access", cls |-> entity.cls, accessor |-> accessor,
                   key |-> Accessors[entity.cls][accessor], results |-> entity.results],
                  Access(entity.cls, accessor, entity.results))
    /\ UNCHANGED entity

\* the session is used first, the entities the caller builds afterwards
NextChildren ==
    \/ (entity = NoEntity /\ GetShow)
    \/ (entity = NoEntity /\ SearchShow)
    \/ (entity = NoEntity /\ GetShowAndSeasons)
    \/ (entity = NoEntity /\ SeasonStep)
    \/ (entity = NoEntity /\ SeasonsReturn)
    \/ NewTvShow
    \/ NewSeason
    \/ ParseSeason
    \/ ParseSeasons
    \/ ReadEntity

SpecChildren == Init /\ [][NextChildren]_vars

\* one Episode per element of the body's episodes list, in order
EpisodesOf(body) == [i \in 1..Len(body.episodes) |-> Episode(body.episodes[i])]

\* what was just constructed, fetched or parsed holds the lists it should
FreshChildren ==
    /\ (op.name = "TvShow") => (result.val.seasons = <<>> /\ entity.seasons = <<>>)
    /\ (op.name = "Season") => (result.val.episodes = <<>> /\ entity.episodes = <<>>)
    /\ (op.name = "get_show" /\ result.kind = "return")
       => (result.val.seasons = <<>>)
    /\ (op.name = "get_show_and_seasons" /\ pc = "idle" /\ result.kind = "return")
       => (result.val[1].seasons = <<>>)
    /\ (op.name = "search_show" /\ result.kind = "return")
       => (\A i \in 1..Len(result.val) : "seasons" \notin DOMAIN result.val[i])
    /\ (op.name = "parse_season" /\ result.kind = "return")
       => (result.val.episodes = EpisodesOf(op.results))

\* a step changes the held object's list only by parsing
ChildrenStep ==
    /\ (entity.cls = "TvShow" /\ entity'.cls = "TvShow"
          /\ entity'.seasons # entity.seasons)
       => /\ op'.name \in {"parse_seasons", "TvShow"}
          /\ (op'.name = "TvShow") => (entity'.seasons = <<>>)
          /\ (op'.name = "parse_seasons")
             => /\ entity'.results = entity.results
                /\ Len(entity'.seasons) > Len(entity.seasons)
                /\ \A i \in 1..Len(entity'.seasons) :
                      entity'.seasons[i] =
                        IF i <= Len(entity.seasons) THEN entity.seasons[i]
                        ELSE [cls |-> "Season",
                              results |-> op'.seasons[i - Len(entity.seasons)],
                              episodes |-> EpisodesOf(op'.seasons[i - Len(entity.seasons)])]
    /\ (entity.cls = "Season" /\ entity'.cls = "Season"
          /\ entity'.episodes # entity.episodes)
       => (op'.name \in {"parse_season", "Season"})
    /\ (op'.name \in {"access", "get_show", "search_show", "get_show_and_seasons"})
       => (entity' = entity)

\* C15: a TvShow just constructed, or returned by get_show or
\* get_show_and_seasons, has an empty season list and a Season just constructed
\* an empty episode list; the shows search_show returns are TvShowFromSearch
\* objects, which carry no season list at all; parse_season gives one Episode
\* per element of the episodes list, in order; the list of a held show or
\* season changes only through parse_seasons or parse_season, never through an
\* accessor or a session operation.
C15_ChildrenOnlyParsed == []FreshChildren /\ [][ChildrenStep]_vars

\* a held show went from no season to two parsed seasons
C15_Witness ==
    /\ op.name = "parse_seasons"
    /\ result = Return(None)
    /\ entity.cls = "TvShow"
    /\ Len(entity.seasons) = 2
    /\ Len(entity.seasons[1].episodes) = 2

\* C15 as stated: the shows returned by search, like those returned by
\* get_show, have a season list and it is empty.
C15_SearchShowsHaveSeasons ==
    (op.name = "search_show" /\ result.kind = "return")
    => (\A i \in 1..Len(result.val) :
           "seasons" \in DOMAIN result.val[i])

----------------------------------------------------------------------------
(* Genre objects loaded from (id, name) tuples *)

MaxGenres == 3

\* Genre.__init__: the id is kept as _id, the name as name
Genre(id, name) == [cls |-> "Genre", _id |-> id, name |-> name]

\* a load that builds the list back to front
Genre_load_reversed(genres) ==
    [i \in 1..Len(genres) |->
        Genre(genres[Len(genres) + 1 - i][1], genres[Len(genres) + 1 - i][2])]

\* Genre.load: Genre(*item) for each item, in order
Genre_load(genres) ==
    [i \in 1..Len(genres) |-> Genre(genres[i][1], genres[i][2])]

\* (id, name) tuples, some sharing an id or a name
GenreTuples ==
    {<<18, "Drama">>, <<35, "Comedy">>, <<18, "Comedy">>, <<35, "Drama">>,
     <<0, "">>}

GenreLists == SeqsUpTo(GenreTuples, MaxGenres)

InitGenre ==
    /\ session = NoSession
    /\ op = NoOp
    /\ pc = "idle"
    /\ frame = NoFrame
    /\ calls = <<>>
    /\ resps = <<>>
    /\ result = NoResult
    /\ coll = <<>>
    /\ files = <<>>
    /\ entity = NoEntity

\* Genre.load(genres)
GenreLoad ==
    /\ \E genres \in GenreLists :
         /\ op' = [name |-> "Genre.load", genres |-> genres]
         /\ result' = Return(Genre_load(genres))
    /\ UNCHANGED <<session, pc, frame, calls, resps, coll, files, entity>>

NextGenre == GenreLoad

SpecGenre == InitGenre /\ [][NextGenre]_vars

\* C16: the Genre list loaded from a list of (id, name) tuples has the length
\* of that list and, read Genre by Genre, gives back the tuples in their order.
C16_GenreRoundTrip ==
    (op.name = "Genre.load")
    => /\ result.kind = "return"
       /\ Len(result.val) = Len(op.genres)
       /\ \A i \in 1..Len(op.genres) :
             <<result.val[i]._id, result.val[i].name>> = op.genres[i]

\* three tuples, two of them sharing an id, were loaded and read back
C16_Witness ==
    /\ op.name = "Genre.load"
    /\ op.genres = <<<<18, "Drama">>, <<35, "Comedy">>, <<18, "Comedy">>>>
    /\ Len(result.val) = 3
    /\ result.val[3].name = "Comedy"

----------------------------------------------------------------------------
(* The genres cache over repeated accesses *)

\* the number of entries of gs before the first one lacking id or name
LeadingWellFormed(gs) ==
    IF \E i \in 1..Len(gs) : ~({"id", "name"} \subseteq DOMAIN gs[i])
    THEN (CHOOSE i \in 1..Len(gs) :
            /\ ~({"id", "name"} \subseteq DOMAIN gs[i])
            /\ \A j \in 1..(i - 1) : {"id", "name"} \subseteq DOMAIN gs[j]) - 1
    ELSE Len(gs)

\* C17: an access to genres while the cache is empty issues one call; a failed
\* answer leaves the cache empty and the access returns the empty list; a
\* well-formed answer makes the cache its list of pairs, which is empty again if
\* the answer lists no genre; an answer with an entry lacking id or name raises
\* and leaves the pairs before that entry in the cache. An access while the
\* cache is not empty issues no call and leaves it as it is, and no other
\* operation changes it: once not empty, the cache keeps the list of the fetch
\* that filled it, with no pair added.
C17_NoNegativeCaching ==
    [][ /\ (pc = "idle" /\ pc' = "idle" /\ op'.name = "genres") =>
            /\ session.genres = <<>> =>
                  /\ Len(calls') = 1
                  /\ (resps'[1].status_code # 200)
                     => (session'.genres = <<>> /\ result' = Return(<<>>))
                  /\ WellFormedGenres(resps'[1])
                     => (session'.genres = GenrePairs(resps'[1].json))
                  /\ (resps'[1].status_code = 200 /\ "genres" \notin DOMAIN resps'[1].json)
                     => (session'.genres = <<>> /\ result'.kind = "raise")
                  /\ (resps'[1].status_code = 200 /\ "genres" \in DOMAIN resps'[1].json
                        /\ ~WellFormedGenres(resps'[1]))
                     => /\ result'.kind = "raise"
                        /\ Len(session'.genres) = LeadingWellFormed(resps'[1].json.genres)
                        /\ \A i \in 1..Len(session'.genres) :
                              session'.genres[i] = <<resps'[1].json.genres[i].id,
                                                     resps'[1].json.genres[i].name>>
            /\ session.genres # <<>> =>
                  /\ calls' = <<>>
                  /\ session'.genres = session.genres
        /\ (op'.name # "genres") => (session'.genres = session.genres) ]_vars

\* an access met a failed answer: nothing cached, the empty list returned
C17_Witness ==
    /\ op.name = "genres"
    /\ Len(calls) = 1
    /\ resps[1].status_code = 401
    /\ session.genres = <<>>
    /\ result = Return(<<>>)

\* C17 as stated: the cache is empty or holds the list of the first successful
\* fetch; so once a fetch has succeeded with an empty list, which is then the
\* list of the first successful fetch, the cache stays empty.
C17_FirstSuccessfulFetch ==
    [][ (pc = "idle" /\ op.name = "genres" /\ Len(calls) = 1
           /\ WellFormedGenres(resps[1]) /\ GenrePairs(resps[1].json) = <<>>)
        => (session'.genres = <<>>) ]_vars

----------------------------------------------------------------------------
(* The payload of the requests of a session *)

\* the parameters the i-th request of the operation adds to the base payload
CallSpecific(i) ==
    IF op.name \in {"search", "search_show"} THEN {"query"}
    ELSE IF op.name = "airing_today" /\ i >= 2 THEN {"page"}
    ELSE {}

\* the text searched for by the operation
QueryOf == IF op.name = "search" THEN op.query ELSE op.showname

\* every request of the operation carries the session's key and language and
\* nothing but the operation's own parameters
BasePayload ==
    /\ (op.name = "session_factory")
       => /\ session.api_key = op.apy_key
          /\ (op.lang \in {None, Some("")}) => (session.lang = "en-US")
          /\ (op.lang \notin {None, Some("")}) => (session.lang = Val(op.lang))
    /\ \A i \in 1..Len(calls) :
          /\ calls[i].payload.api_key = session.api_key
          /\ calls[i].payload.language = session.lang
          /\ DOMAIN calls[i].payload = {"api_key", "language"} \cup CallSpecific(i)
          /\ ("query" \in CallSpecific(i)) => (calls[i].payload.query = QueryOf)
          /\ ("page" \in CallSpecific(i)) => (calls[i].payload.page = i)

\* C20: every request a session issues carries the api key given at
\* construction and the session's current language, "en-US" when the session
\* was constructed with no or an empty language; the key never changes; query
\* and page are the only other parameters and are those of the operation that
\* issues the request: a search carries its own query, the first request of
\* airing_today no page and its i-th request page i, every other request nothing
\* of an earlier operation.
C20_BasePayload == []BasePayload /\ [][session'.api_key = session.api_key]_vars

\* after the language was changed, a search carried the new language, the key
\* and its own query
C20_Witness ==
    /\ op.name = "search"
    /\ session.lang = "it"
    /\ Len(calls) = 1
    /\ calls[1].payload = [api_key |-> "key1", language |-> "it", query |-> op.query]

----------------------------------------------------------------------------
(* Entity._get_value and the default it is given *)

\* what dict.get(key, default) gives: the value stored, or the default
dict_get(results, key, default) ==
    IF key \in DOMAIN results THEN Some(results[key]) ELSE default

\* C21: _get_value(key, default) returns the wrapped mapping's value when the
\* key is present and the default when it is absent; Entity.name, which passes
\* the empty string as default, returns the empty string (not None) for a
\* mapping without a name key.
C21_GetValueDefault ==
    (op.name = "access" /\ pc = "idle" /\ op.accessor = "name"
        /\ op.cls # "Character")
    => result = Return(dict_get(op.results, "name", Some(<<>>)))

----------------------------------------------------------------------------
(* Configuration and Configuration.getconfig *)

\* Configuration(): the fields as __init__ sets them
Configuration ==
    [img_base_url |-> None, img_secure_base_url |-> None,
     img_backdrop_sizes |-> <<>>, img_logo_sizes |-> <<>>,
     img_poster_sizes |-> <<>>, img_profile_sizes |-> <<>>,
     img_still_sizes |-> <<>>, change_keys |-> <<>>]

\* the keys of resp['images'] in the order the assignments subscript them
ImageKeys ==
    <<"base_url", "secure_base_url", "backdrop_sizes", "logo_sizes",
      "poster_sizes", "profile_sizes", "still_sizes">>

\* the eight assignments conf.x = resp[...]: KeyError at the first absent key
fill_conf(conf, resp) ==
    IF "images" \notin DOMAIN resp THEN Raise("KeyError", "images")
    ELSE IF \E i \in 1..Len(ImageKeys) : ImageKeys[i] \notin DOMAIN resp.images
    THEN Raise("KeyError",
               ImageKeys[CHOOSE i \in 1..Len(ImageKeys) :
                            /\ ImageKeys[i] \notin DOMAIN resp.images
                            /\ \A j \in 1..(i - 1) : ImageKeys[j] \in DOMAIN resp.images])
    ELSE IF "change_keys" \notin DOMAIN resp THEN Raise("KeyError", "change_keys")
    ELSE Return([conf EXCEPT
                   !.img_base_url = Some(resp.images.base_url),
                   !.img_secure_base_url = Some(resp.images.secure_base_url),
                   !.img_backdrop_sizes = resp.images.backdrop_sizes,
                   !.img_logo_sizes = resp.images.logo_sizes,
                   !.img_poster_sizes = resp.images.poster_sizes,
                   !.img_profile_sizes = resp.images.profile_sizes,
                   !.img_still_sizes = resp.images.still_sizes,
                   !.change_keys = resp.change_keys])

\* Configuration.getconfig of tmdbapi. The second call goes to get_endpoint, the
\* builder, with the route as action and the payload as parameters: the route is
\* no key of the table, so resp is None and resp['status'] raises. The builder
\* answers None or text, never a mapping, so the assignments under
\* resp['status'] == 'ok' are never reached, and no GET is issued.
getconfig(s) ==
    LET route   == get_endpoint("config", Scalar("None"))
        payload == get_payload(s)
        resp    == get_endpoint(Val(route.val), Scalar(payload))
    IN  [calls  |-> <<>>,
         result |-> IF resp.val = None
                    THEN Raise("TypeError", "'NoneType' object is not subscriptable")
                    ELSE Raise("TypeError", "string indices must be integers")]

\* Configuration.getconfig of tmdbRest: requests.get(route, payload).json() and
\* the assignments, whatever the status of the response
getconfig_tmdbRest(s, r) ==
    LET route   == get_endpoint("config", Scalar("None"))
        payload == get_payload(s)
    IN  [calls  |-> <<Request(Val(route.val), payload)>>,
         result |-> fill_conf(Configuration, r.json)]

PosterSizeLists ==
    {<<>>, <<"original">>, <<"w92", "original">>, <<"w92", "w342", "original">>}

ChangeKeyLists == {<<>>, <<"adult">>, <<"adult", "air_date">>}

\* answers of the configuration endpoint: bodies with `images` and
\* `change_keys`, and the bodies of refused calls
ConfigResponses ==
    {OkResponse([images |-> [base_url |-> "http://image.tmdb.org/t/p/",
                             secure_base_url |-> "https://image.tmdb.org/t/p/",
                             backdrop_sizes |-> <<"w300", "original">>,
                             logo_sizes |-> <<"w45", "original">>,
                             poster_sizes |-> ps,
                             profile_sizes |-> <<"h632", "original">>,
                             still_sizes |-> <<"w185", "original">>],
                 change_keys |-> ck]) :
        ps \in PosterSizeLists, ck \in ChangeKeyLists}
    \cup FailedResponses

\* the two packages that define Configuration
Packages == {"tmdbapi", "tmdbRest"}

\* a session from the factory; getconfig not yet called
InitConfig ==
    /\ \E media_type \in {<<"t","v">>, <<"m","o","v","i","e">>},
          apy_key \in ApiKeys, lang \in LangInputs :
         session = session_factory(media_type, apy_key, lang).val
    /\ \E package \in Packages : op = [name |-> "getconfig", package |-> package]
    /\ pc = "call"
    /\ frame = NoFrame
    /\ calls = <<>>
    /\ resps = <<>>
    /\ result = NoResult
    /\ coll = <<>>
    /\ files = <<>>
    /\ entity = NoEntity

\* Configuration.getconfig(session) of tmdbapi
GetConfig ==
    /\ pc = "call"
    /\ op.package = "tmdbapi"
    /\ calls' = getconfig(session).calls
    /\ result' = getconfig(session).result
    /\ pc' = "idle"
    /\ UNCHANGED <<session, op, frame, resps, coll, files, entity>>

\* Configuration.getconfig(session) of tmdbRest, the server answering r
GetConfigRest ==
    /\ pc = "call"
    /\ op.package = "tmdbRest"
    /\ \E r \in ConfigResponses :
         /\ calls' = getconfig_tmdbRest(session, r).calls
         /\ resps' = <<r>>
         /\ result' = getconfig_tmdbRest(session, r).result
    /\ pc' = "idle"
    /\ UNCHANGED <<session, op, frame, coll, files, entity>>

NextConfig == GetConfig \/ GetConfigRest

SpecConfig == InitConfig /\ [][NextConfig]_vars

\* C22: getconfig (of tmdbapi, the current package) issues one GET to the
\* configuration endpoint with the session's base payload; on a successful response it returns a Configuration
\* whose base URL, secure base URL, five size lists and change_keys equal the
\* values of the response; on a non-successful response it returns a
\* Configuration still holding its initial values, without raising.
C22_GetConfig ==
    (op.name = "getconfig" /\ op.package = "tmdbapi" /\ pc = "idle")
    => /\ calls = <<Request(API_ROOT \o "/configuration",
                            [api_key |-> session.api_key, language |-> session.lang])>>
       /\ Len(resps) = 1
       /\ IF resps[1].status_code = 200
          THEN result =
                 Return([img_base_url |-> Some(resps[1].json.images.base_url),
                         img_secure_base_url |-> Some(resps[1].json.images.secure_base_url),
                         img_backdrop_sizes |-> resps[1].json.images.backdrop_sizes,
                         img_logo_sizes |-> resps[1].json.images.logo_sizes,
                         img_poster_sizes |-> resps[1].json.images.poster_sizes,
                         img_profile_sizes |-> resps[1].json.images.profile_sizes,
                         img_still_sizes |-> resps[1].json.images.still_sizes,
                         change_keys |-> resps[1].json.change_keys])
          ELSE result = Return(Configuration)

====
